---- MODULE Spec2Model ----
(***************************************************************************)
(* coc-format-on-save: the pre-save interceptor, the save commands and the *)
(* formatting pipeline, for the four variants of the extension that the    *)
(* repository holds:                                                       *)
(*   "p002"  src/unnamed/part_002  boolean flag formatOnSave, TypeScript   *)
(*           BufWritePre hook, in-memory override of coc.preferences       *)
(*   "p004"  src/unnamed/part_004  autoFormatModeForCurrentSession,        *)
(*           TypeScript BufWritePre hook                                   *)
(*   "index" src/src/index.ts      zod schema and actions; the hook and    *)
(*           the save mode live in the Lua plugin src/unnamed/part_001     *)
(*   "p003"  src/unnamed/part_003  as index, with timeouts and the         *)
(*           disabled action variant; hook in src/unnamed/part_001         *)
(* Host operations (commands, queries, the host save) are the environment: *)
(* each awaited call resolves, rejects or never resolves.                  *)
(***************************************************************************)
EXTENDS Integers, Sequences, FiniteSets, TLC

VARIABLES
  ver,          \* which variant of the extension runs
  cfg,          \* the user's format-on-save configuration, as written
  pref,         \* the user's coc.preferences.formatOnSave
  userFiletypes,  \* the user's coc.preferences.formatOnSaveFiletypes
  mem,          \* the host's in-memory configuration override
  cocReady,     \* vim.g.coc_service_initialized ~= 0
  activation,   \* "no", "disabled", "failed", "active", "activeWarned"
  commandsRegistered,  \* the command names registered by activate
  hooked,       \* activate subscribed the BufWritePre autocmd
  mode,         \* the save-mode flag
  save,         \* the host save in progress, or the last one
  dec,          \* what the last pre-save handler saw and decided
  pc,           \* position of the single thread of control
  run,          \* the pipeline invocation in progress, or the last one
  trace,        \* host effects of that invocation, in order
  host,         \* what each host command does to a document's text
  content,      \* the text of the document the commands work on
  late,         \* commands the pipeline stopped waiting for: pending, done
  plan          \* the configuration the user's next edit of the settings gives

vars == <<ver, cfg, pref, userFiletypes, mem, cocReady, activation, commandsRegistered,
          hooked, mode, save, dec, pc, run, trace, host, content, late, plan>>

\* Most pre-save events one host save fires (write: 1, wall: one per buffer).
MaxEvents == 2
\* Longest configured action mapping.
MaxActions == 2

Versions == {"p002", "p004", "index", "p003"}
\* Variants whose activate registers the BufWritePre autocmd itself.
HookVersions == {"p002", "p004"}
\* Variants driven by the Lua plugin's autocmd and M.save.
LuaVersions == {"index", "p003"}

----------------------------------------------------------------------------
(* Documents *)

\* doc.uri as a sequence of tokens: the target name, the target name after
\* a longer stem, and the target name followed by a further suffix.
TargetName == <<"coc-settings", ".json">>
Uris == { <<"/", "coc-settings", ".json">>,
          <<"/", "my-", "coc-settings", ".json">>,
          <<"/", "coc-settings", ".json", ".bak">> }

endsWith(s, t) ==
  /\ Len(t) <= Len(s)
  /\ SubSeq(s, Len(s) - Len(t) + 1, Len(s)) = t

isCocConfigFile(doc) == endsWith(doc.uri, TargetName)

hasFormatProvider(doc) == doc.provider

Docs == [uri : Uris, provider : BOOLEAN]

NoDoc == [uri |-> <<>>, provider |-> FALSE]

\* The text of a document, as far as the host commands tell texts apart:
\* whether it carries a mark that a command left in it, and its layout.
Contents == [marked : BOOLEAN, layout : {"one", "other"}]

OtherLayout(l) == IF l = "one" THEN "other" ELSE "one"

\* What a host command (formatJson, editor.action.organizeImport, a
\* user-defined command, editor.action.formatDocument) can do to the text:
\* nothing; leave a mark; take the mark out and lay the text out the other
\* way; bring the text into one canonical form.
Effects == {"nothing", "mark", "relayout", "canonical"}

Apply(f, c) ==
  CASE f = "nothing"   -> c
    [] f = "mark"      -> [c EXCEPT !.marked = TRUE]
    [] f = "relayout"  -> IF c.marked
                            THEN [marked |-> FALSE, layout |-> OtherLayout(c.layout)]
                            ELSE c
    [] f = "canonical" -> [marked |-> FALSE, layout |-> "one"]

\* Stands for a text where there is none to speak of.
NoContent == [marked |-> FALSE, layout |-> "one"]

\* The editor's side: the effect of each command, the documents that are
\* open in it, and whether it lets a save command start while another save
\* is in progress.
Hosts == [sort : Effects, organize : Effects, action : Effects, format : Effects,
          docs : SUBSET Docs \ {{}}, reentrant : BOOLEAN]

\* Hosts whose commands leave the text alone.
QuietHost(ds, re) ==
  [sort |-> "nothing", organize |-> "nothing", action |-> "nothing",
   format |-> "nothing", docs |-> ds, reentrant |-> re]

\* The open documents with a URI of u, with and without a format provider.
DocsAt(us) == {d \in Docs : d.uri \in us}

----------------------------------------------------------------------------
(* Configuration *)

\* Action descriptors as the user writes them: whether a command string is
\* given, and the commandType tag ("absent" when omitted).
RawCoc     == [command |-> TRUE,  commandType |-> "coc"]
RawVim     == [command |-> TRUE,  commandType |-> "vim"]
RawOmitted == [command |-> TRUE,  commandType |-> "absent"]
RawNone    == [command |-> FALSE, commandType |-> "none"]
RawBad     == [command |-> FALSE, commandType |-> "coc"]
RawDescriptors == {RawCoc, RawVim, RawOmitted, RawNone, RawBad}

SeqsUpTo(S, n) == UNION { [1..k -> S] : k \in 0..n }

\* Action names, the keys of the mapping: integer-like ("1", "2", ...) or
\* not ("a", "b", ...); n is the number, or which of the other names it is.
Keys == [int : BOOLEAN, n : 1..MaxActions]

PlainNames(len) == [i \in 1..len |-> [int |-> FALSE, n |-> i]]

Injective(f) == \A i, j \in DOMAIN f : f[i] = f[j] => i = j

\* for (const actionName in actions): the own keys of an object come with
\* the integer-like keys first, in ascending numeric order, then the other
\* keys in the order in which they were created.
iteratedBefore(names, i, j) ==
  IF names[i].int /\ names[j].int THEN names[i].n < names[j].n
  ELSE IF names[i].int # names[j].int THEN names[i].int
  ELSE i < j

\* The declared positions of the entries, in the order of iteration.
ownKeys(names) ==
  [p \in 1..Len(names) |->
     CHOOSE i \in 1..Len(names) :
       Cardinality({j \in 1..Len(names) : iteratedBefore(names, j, i)}) = p - 1]

\* z.object({commandType: z.literal('none').default('none')}); unknown keys
\* are stripped, so a command string does not make the object invalid.
OptionNoneValid(raw) == raw.commandType \in {"absent", "none"}

\* z.object({command: z.string(), args: ..., commandType: coc | vim, default coc})
OptionCommandValid(raw) ==
  raw.command /\ raw.commandType \in {"absent", "coc", "vim"}

OptionCommandValue(raw) ==
  IF raw.commandType = "absent" THEN "coc" ELSE raw.commandType

\* The action schema of each variant; a union yields its first valid option.
ParseAction(v, raw) ==
  IF v = "p003"
    THEN IF OptionNoneValid(raw) THEN "none"
         ELSE IF OptionCommandValid(raw) THEN OptionCommandValue(raw)
         ELSE "invalid"
    ELSE IF OptionCommandValid(raw) THEN OptionCommandValue(raw)
         ELSE "invalid"

\* ConfigSchema.parse succeeds; part_002 and part_004 read raw values.
ConfigValid(v, c) ==
  \/ v \in HookVersions
  \/ \A i \in 1..Len(c.actions) : ParseAction(v, c.actions[i]) # "invalid"

\* The parsed actions as the loop meets them.
ResolvedActions(v, c) ==
  [i \in 1..Len(c.actions) |-> ParseAction(v, c.actions[ownKeys(c.names)[i]])]

\* actions and names: the descriptors and their keys, in declared order.
Configs(v) ==
  { c \in [enabled : BOOLEAN,
           sortCocSettingsJson : BOOLEAN,
           organizeImportWithFormat : BOOLEAN,
           actions : IF v \in HookVersions THEN {<<>>}
                     ELSE SeqsUpTo(RawDescriptors, MaxActions),
           names : IF v \in HookVersions THEN {<<>>}
                   ELSE SeqsUpTo(Keys, MaxActions)] :
      Len(c.names) = Len(c.actions) /\ Injective(c.names) }

----------------------------------------------------------------------------
(* Host configuration: coc.preferences with its in-memory override *)

NoOverride == [formatOnSave |-> "undefined", formatOnSaveFiletypes |-> "undefined"]

BoolStr(b) == IF b THEN "true" ELSE "false"

\* workspace.getConfiguration('coc.preferences').get('formatOnSave'): the
\* memory override when present, else the user's value (host default false).
getFormatOnSave(m, p) ==
  IF m.formatOnSave = "undefined" THEN p ELSE m.formatOnSave = "true"

\* The memory override after overrideFormatOnSaveOnMemory(value).
overrideFormatOnSaveOnMemory(value) ==
  [formatOnSave |-> value,
   formatOnSaveFiletypes |-> IF value = "false" THEN "empty" ELSE "undefined"]

disableFormatOnSaveOnMemory(which) ==
  overrideFormatOnSaveOnMemory(IF which = "start" THEN "false" ELSE "undefined")

memAfterGetRealLeftReset(m, p) == overrideFormatOnSaveOnMemory("undefined")

\* The memory override after getRealFormatOnSave: reset, read, then put back
\* what overrideFormatOnSaveOnMemory returned, the old effective value.
memAfterGetReal(m, p) ==
  overrideFormatOnSaveOnMemory(BoolStr(getFormatOnSave(m, p)))

\* The value getRealFormatOnSave returns: read while the override is reset.
getRealFormatOnSave(m, p) ==
  getFormatOnSave(overrideFormatOnSaveOnMemory("undefined"), p)

\* disableCocFormatting: formatOnSaveFiletypes := [] in memory.
disableCocFormatting(m) == [m EXCEPT !.formatOnSaveFiletypes = "empty"]

----------------------------------------------------------------------------
(* Activation *)

SaveCommands ==
  {"save", "forceSave", "saveAll", "forceSaveAll",
   "saveWithFormat", "forceSaveWithFormat", "saveAllWithFormat",
   "forceSaveAllWithFormat",
   "saveWithoutFormat", "forceSaveWithoutFormat", "saveAllWithoutFormat",
   "forceSaveAllWithoutFormat"}

CommandsOf(v) ==
  IF v \in HookVersions THEN {"format"} \cup SaveCommands
  ELSE {"format", "formatOnDemand"}

disableCocFormattingRefusesUserValue(uf) == uf = "undefined"

\* What disableCocFormatting returns: true on every path, also after the
\* message about the user's own formatOnSaveFiletypes.
disableCocFormattingReturns(uf) == TRUE

ActivationAlwaysProceeds(c) == TRUE

\* if (!config.enabled) return;
ActivationProceeds(c) == c.enabled

Activate ==
  /\ activation = "no"
  /\ pc = "idle"
  /\ \E globalOk \in {b \in BOOLEAN : b \/ ver \in LuaVersions} :
     IF ~globalOk
       THEN \* getConfig(undefined): ConfigSchema.parse throws on the
            \* unscoped settings and activate rejects
            /\ activation' = "failed"
            /\ UNCHANGED <<commandsRegistered, hooked, mem>>
       ELSE IF ~ActivationProceeds(cfg)
       THEN /\ activation' = "disabled"
            /\ UNCHANGED <<commandsRegistered, hooked, mem>>
       ELSE IF ver # "p002" /\ ~disableCocFormattingReturns(userFiletypes)
       THEN \* if (!disableCocFormatting()) return;
            /\ activation' = "aborted"
            /\ mem' = disableCocFormatting(mem)
            /\ UNCHANGED <<commandsRegistered, hooked>>
       ELSE /\ activation' = IF ver # "p002" /\ userFiletypes # "undefined"
                               THEN "activeWarned" ELSE "active"
            /\ mem' = IF ver = "p002" THEN mem ELSE disableCocFormatting(mem)
            /\ hooked' = (ver \in HookVersions)
            /\ commandsRegistered' = CommandsOf(ver)
  /\ UNCHANGED <<ver, cfg, pref, userFiletypes, cocReady, mode, save, dec, pc, run, trace,
                 host, content, late, plan>>

\* The host finishes initialising the coc service.
CocServiceInitialized ==
  /\ ~cocReady
  /\ activation # "no"
  /\ cocReady' = TRUE
  /\ UNCHANGED <<ver, cfg, pref, userFiletypes, mem, activation, commandsRegistered, hooked,
                 mode, save, dec, pc, run, trace, host, content, late, plan>>

----------------------------------------------------------------------------
(* The save-mode flag and the pre-save decision *)

\* part_002 keeps formatOnSave: boolean | undefined; true is written "always"
\* here, false "never". part_004 declares its flag without an initialiser.
InitialMode(v) == IF v \in LuaVersions THEN "auto" ELSE "undefined"

ResetModeStuck(v) == "never"

\* The value save() puts back after the host save command.
ResetMode(v) == IF v = "p002" THEN "undefined" ELSE "auto"

\* The modes an explicit save command can be started with.
ExplicitModes(v) ==
  IF v = "p002" THEN {"undefined", "always", "never"}
  ELSE {"auto", "always", "never"}

shouldFormatNeedsPref(v, m, realPref) ==
  realPref /\ m \in {"always", "auto", "undefined"}

\* onBufWritePre of part_004 and part_002: the condition guarding format(doc).
shouldFormat(v, m, realPref) ==
  IF v = "p004"
    THEN m = "always" \/ (m = "auto" /\ realPref)
    ELSE m = "always" \/ (m = "undefined" /\ realPref)

\* on_buf_write: the command chosen for the mode, "nil" for none.
format_command(m) ==
  IF m = "always" THEN "format"
  ELSE IF m = "auto" THEN "formatOnDemand"
  ELSE "nil"

\* formatOnDemand: config.get('formatOnSave', false)
formatOnDemand(m, p) == getFormatOnSave(m, p)

\* over: a second save command that started while this save was in progress
\* ("none", "running", "returned"); afterEdit: the settings were edited
\* between the save before and this one, an ordinary save.
NoSave == [status |-> "none", kind |-> "none", req |-> "none", eventsLeft |-> 0,
           over |-> "none", afterEdit |-> FALSE]

observedModeDefault(m) == "auto"

\* const mode = autoFormatModeForCurrentSession / local mode = format_on_save_mode
observedMode(m) == m

\* served: the handler found the extension able to take the request (always
\* so for onBufWritePre; behind the Lua hook, service up and command known).
NoDec == [handled |-> FALSE, seen |-> "none", served |-> FALSE, ran |-> FALSE]

NoRun == [state |-> "none", via |-> "none", doc |-> NoDoc, resolved |-> FALSE,
          sort |-> FALSE, organize |-> FALSE, actions |-> <<>>,
          order |-> <<>>, i |-> 0, again |-> FALSE,
          startContent |-> NoContent, endContent |-> NoContent]

----------------------------------------------------------------------------
(* The formatting pipeline *)

E(name) == [ev |-> name, i |-> 0]
EA(name, k) == [ev |-> name, i |-> k]

Sync == E("sync")

\* withTimeout exists in part_003 only.
HasTimeout(v) == v = "p003"

Outcomes == {"ok", "reject", "hang"}

\* How an awaited host command ends for the pipeline.
Settled(v, o) ==
  IF o = "hang" THEN (IF HasTimeout(v) THEN "timeout" ELSE "hung") ELSE o

FailureEvent(s, k) == IF s = "timeout" THEN EA("timeout", k) ELSE EA("rejected", k)

NotAwaited(t, k) == t

\* await of a dispatched host command that resolves: the pipeline resumes
\* only after the command of entry k (0: a fixed step) has settled.
Awaited(t, k) == Append(t, EA("resolved", k))

NoLate == [pending |-> {}, done |-> {}]

\* Which command of the host an event of the trace dispatches.
CommandOf(e) ==
  IF e.ev \in {"coc", "vim"} THEN "action" ELSE e.ev

timeoutCancels(l, before, after) == l

\* withTimeout: Promise.race settles with the timer's rejection and the
\* promise of the command is left alone; the commands whose timeouts were
\* appended to the trace by a step are pending at the host from then on.
LeftBehind(l, before, after) ==
  [l EXCEPT !.pending = @ \cup
     { CommandOf(after[n - 1]) :
         n \in { m \in (Len(before) + 1)..Len(after) : after[m].ev = "timeout" } }]

\* The finally block of format (index.ts, part_003): doc.forceSync().
Finally(v, tr) == IF v \in LuaVersions THEN Append(tr, Sync) ELSE tr

CaughtSilently(v, tr) == Finally(v, tr)

\* The catch block of format, then its finally block.
Caught(v, tr) == Finally(v, Append(tr, E("error")))

\* format returns to its caller: onBufWritePre (which syncs again), the Lua
\* hook's pcall, or the command dispatcher.
ReturnPc(via) == IF via = "command" THEN "idle" ELSE "saving"

ReturnTrace(via, tr) == IF via = "hook" THEN Append(tr, Sync) ELSE tr

\* An exception leaves format: behind the Lua hook the pcall around CocAction
\* takes it and notifies; a directly invoked command rejects to its caller.
Escapes(via, tr) ==
  IF via = "lua" THEN Append(Append(tr, E("threw")), E("notified"))
  ELSE Append(tr, E("threw"))

Done(r, c) == [r EXCEPT !.state = "done", !.endContent = c]

\* The pipeline moves on to position p, stops for good, or returns; c is
\* the text the step leaves behind.
Goes(p, t, c) == pc' = p /\ trace' = t /\ run' = run /\ content' = c

Hangs(t) == pc' = "hung" /\ trace' = t /\ run' = run /\ content' = content

Ends(t, c) ==
  /\ pc' = ReturnPc(run.via)
  /\ trace' = ReturnTrace(run.via, t)
  /\ run' = Done(run, c)
  /\ content' = c

\* The handler decides against a run.
Stays ==
  /\ run' = NoRun /\ trace' = <<>> /\ pc' = pc
  /\ content' = content /\ late' = NoLate

\* The command format-on-save.format is invoked on the document on which its
\* last invocation has run to its end with every command resolved; that
\* invocation began on a text the formatter leaves as it is, and the text
\* is now as that invocation left it.
InSuccession(via, d) ==
  /\ via = "command" /\ run.via = "command"
  /\ run.state = "done" /\ run.resolved
  /\ run.doc = d
  /\ Apply(host.format, run.startContent) = run.startContent
  /\ run.endContent = content
  /\ \A n \in 1..Len(trace) :
       trace[n].ev \notin {"rejected", "timeout", "queryRejected", "invalid", "threw"}

getConfigCached(now, before) == before

\* getConfig: workspace.getConfiguration('format-on-save', doc) is asked on
\* every call and answers with the settings as they are now; what it
\* answered before the settings were last edited plays no part.
getConfig(now, before) == now

\* format(doc) is entered: forceSync and getConfig as the variant orders them.
StartFormat(via, d) ==
  LET config == getConfig(cfg, plan)
      valid == ConfigValid(ver, config)
      noDoc == ver = "p002" /\ via = "command"
      r == [state |-> "running", via |-> via,
            doc |-> IF noDoc THEN NoDoc ELSE d, resolved |-> valid,
            sort |-> valid /\ config.sortCocSettingsJson,
            organize |-> valid /\ config.organizeImportWithFormat,
            actions |-> IF valid THEN ResolvedActions(ver, config) ELSE <<>>,
            order |-> IF valid THEN ownKeys(config.names) ELSE <<>>,
            i |-> 1, again |-> InSuccession(via, d),
            startContent |-> content, endContent |-> content]
      starts(t) == /\ pc' = "sort" /\ trace' = t /\ run' = r
                   /\ content' = content /\ late' = NoLate
      fails(t)  == /\ pc' = ReturnPc(via)
                   /\ trace' = ReturnTrace(via, t)
                   /\ run' = Done(r, content)
                   /\ content' = content /\ late' = NoLate
  IN IF ver = "p003"
       THEN IF valid THEN starts(<<Sync>>)
                     ELSE fails(Caught(ver, <<Sync, E("invalid")>>))
     ELSE IF ver = "index"
       THEN IF valid THEN starts(<<>>)
                     ELSE fails(Escapes(via, <<E("invalid")>>))
     ELSE IF via = "hook" THEN starts(<<Sync>>)
     ELSE IF ver = "p004" THEN starts(<<>>)
     ELSE \* part_002 registers format itself: doc is undefined
          fails(Escapes(via, <<>>))

sortJsonIgnoringFlag(r) == r.resolved /\ isCocConfigFile(r.doc)

\* sortJsonIfNeeded: config.sortCocSettingsJson && isCocConfigFile(doc)
sortJsonIfNeeded(r) == r.sort /\ isCocConfigFile(r.doc)

sortFailureLeavesStep(v) == FALSE

\* The try/catch around formatJson in the sort step: the catch shows a
\* warning and the step returns normally.
sortFailureCaught(v) == TRUE

AfterSort(v, at) ==
  IF at = "sort2" \/ v = "p003" THEN "organize" ELSE "guard"

StepSort ==
  /\ pc \in {"sort", "sort2"}
  /\ IF ~sortJsonIfNeeded(run)
       THEN Goes(AfterSort(ver, pc), trace, content)
       ELSE \E o \in Outcomes :
              LET s == Settled(ver, o)
                  t == Append(trace, E("sort"))
              IN IF s = "hung" THEN Hangs(t)
                 ELSE IF s = "ok"
                   THEN Goes(AfterSort(ver, pc), Awaited(t, 0),
                             Apply(host.sort, content))
                 ELSE IF sortFailureCaught(ver)
                   THEN Goes(AfterSort(ver, pc),
                             Append(Append(t, FailureEvent(s, 0)), E("sortWarned")),
                             content)
                 ELSE Ends(Caught(ver, Append(t, FailureEvent(s, 0))), content)
  /\ late' = LeftBehind(late, trace, trace')
  /\ UNCHANGED <<ver, cfg, pref, userFiletypes, mem, cocReady, activation,
                 commandsRegistered, hooked, mode, save, dec, host, plan>>

guardOnlyWarns(v) == FALSE

\* The provider check at the head of format (part_002, part_004, index.ts)
\* returns from format when there is no provider.
guardStops(v) == TRUE

StepGuard ==
  /\ pc = "guard"
  /\ LET after == IF ver = "index" THEN "sort2" ELSE "organize"
         yes == IF ver = "index"
                  THEN Append(Append(trace, E("guardYes")), Sync)
                  ELSE Append(trace, E("guardYes"))
     IN IF hasFormatProvider(run.doc) THEN Goes(after, yes, content)
        ELSE IF guardStops(ver) THEN Ends(Append(trace, E("guardNo")), content)
        ELSE Goes(after, Append(trace, E("guardNo")), content)
  /\ late' = LeftBehind(late, trace, trace')
  /\ UNCHANGED <<ver, cfg, pref, userFiletypes, mem, cocReady, activation,
                 commandsRegistered, hooked, mode, save, dec, host, plan>>

OrganizeOutcomes == {"none", "queryReject", "queryHang", "ok", "reject", "hang"}

\* The number of code actions in the answer to the request for
\* source.organizeImports actions.
codeActions(q) == IF q = "none" THEN 0 ELSE 1

\* The answer as the trace records it.
Answered(n) == IF n > 0 THEN E("someFound") ELSE E("noneFound")

hasOrganizeImportProviderAnyAnswer(n) == TRUE

\* hasOrganizeImportProvider: codeActions && codeActions.length
hasOrganizeImportProvider(n) == n > 0

AfterOrganize(v) == IF v \in HookVersions THEN "lsp" ELSE "actions"

\* organizeImportIfNeeded: the code-action query, then the command.
StepOrganize ==
  /\ pc = "organize"
  /\ IF ~run.organize
       THEN Goes(AfterOrganize(ver), trace, content)
       ELSE \E q \in OrganizeOutcomes :
              LET tq == Append(trace, E("query"))
                  ta == Append(tq, Answered(codeActions(q)))
                  td == Append(ta, E("organize"))
                  s  == Settled(ver, q)
              IN IF q = "queryReject"
                   THEN Ends(Caught(ver, Append(tq, E("queryRejected"))), content)
                 ELSE IF q = "queryHang" THEN Hangs(tq)
                 ELSE IF ~hasOrganizeImportProvider(codeActions(q))
                   THEN Goes(AfterOrganize(ver), Append(ta, E("notSupported")),
                             content)
                 ELSE IF s \in {"ok", "none"}
                   THEN Goes(AfterOrganize(ver), Awaited(td, 0),
                             Apply(host.organize, content))
                 ELSE IF s = "hung" THEN Hangs(td)
                 ELSE Ends(Caught(ver, Append(td, FailureEvent(s, 0))), content)
  /\ late' = LeftBehind(late, trace, trace')
  /\ UNCHANGED <<ver, cfg, pref, userFiletypes, mem, cocReady, activation,
                 commandsRegistered, hooked, mode, save, dec, host, plan>>

actionDispatchesAnyKind(kind) == TRUE

\* applyConfiguredActions: the switch on action.commandType.
actionDispatches(kind) == kind \in {"coc", "vim"}

waitsAfterEveryAction(kind) == TRUE

\* case 'coc': await new Promise((resolve) => setTimeout(resolve, ...))
\* after the awaited command; the other cases have no such wait.
waitsAfterAction(kind) == kind = "coc"

actionFailureContained(v) == FALSE

\* A rejection inside the loop leaves applyConfiguredActions (no try in it).
actionFailurePropagates(v) == TRUE

\* One turn of the loop of applyConfiguredActions / applyActions.
StepAction ==
  /\ pc = "actions"
  /\ IF run.i > Len(run.actions)
       THEN Goes("lsp", trace, content)
       ELSE LET k == run.i
                kind == run.actions[k]
                next == [run EXCEPT !.i = k + 1]
                turns(t, c) ==
                  pc' = "actions" /\ trace' = t /\ run' = next /\ content' = c
            IN IF ~actionDispatches(kind)
                 THEN turns(Append(trace, EA("skip", k)), content)
                 ELSE \E o \in Outcomes :
                        LET s == Settled(ver, o)
                            t == Append(trace, EA(kind, k))
                        IN IF s = "hung" THEN Hangs(t)
                           ELSE IF s = "ok"
                             THEN turns(IF waitsAfterAction(kind)
                                          THEN Append(Awaited(t, k), EA("delay", k))
                                          ELSE Awaited(t, k),
                                        Apply(host.action, content))
                           ELSE IF actionFailurePropagates(ver)
                             THEN Ends(Caught(ver, Append(t, FailureEvent(s, k))),
                                       content)
                           ELSE turns(Append(t, FailureEvent(s, k)), content)
  /\ late' = LeftBehind(late, trace, trace')
  /\ UNCHANGED <<ver, cfg, pref, userFiletypes, mem, cocReady, activation,
                 commandsRegistered, hooked, mode, save, dec, host, plan>>

formatDocumentAfterMark(h, c) == Apply(h.format, Apply("mark", c))

\* What a resolved editor.action.formatDocument does to the text.
formatDocument(h, c) == Apply(h.format, c)

\* part_003 checks the provider here, in doLSPFormattingIfAvailable.
guardInLastStep(v) == v = "p003"

\* editor.action.formatDocument, then the end of format.
StepFormat ==
  /\ pc = "lsp"
  /\ IF guardInLastStep(ver) /\ ~hasFormatProvider(run.doc)
       THEN Ends(Finally(ver, Append(trace, E("guardNo"))), content)
       ELSE \E o \in Outcomes :
              LET s == Settled(ver, o)
                  g == IF guardInLastStep(ver)
                         THEN Append(trace, E("guardYes")) ELSE trace
                  t == Append(g, E("format"))
              IN IF s = "hung" THEN Hangs(t)
                 ELSE IF s = "ok"
                   THEN Ends(Finally(ver, Awaited(t, 0)),
                             formatDocument(host, content))
                 ELSE Ends(Caught(ver, Append(t, FailureEvent(s, 0))), content)
  /\ late' = LeftBehind(late, trace, trace')
  /\ UNCHANGED <<ver, cfg, pref, userFiletypes, mem, cocReady, activation,
                 commandsRegistered, hooked, mode, save, dec, host, plan>>

----------------------------------------------------------------------------
(* Saves *)

\* The user writes the buffer with the editor's own :w or :wa.
OrdinarySave ==
  /\ pc = "idle"
  /\ \E n \in 1..MaxEvents :
       save' = [status |-> "running", kind |-> "ordinary", req |-> "none",
                eventsLeft |-> n, over |-> "none",
                afterEdit |-> (save.status = "edited")]
  /\ pc' = "saving"
  /\ dec' = NoDec /\ run' = NoRun /\ trace' = <<>>
  /\ late' = NoLate /\ content' = content
  /\ UNCHANGED <<ver, cfg, pref, userFiletypes, mem, cocReady, activation, commandsRegistered,
                 hooked, mode, host, plan>>

\* save(vimSaveCommand, mode) of part_004 and part_002 and M.save of the Lua
\* plugin, up to the host save command they issue.
ExplicitSave ==
  /\ pc = "idle"
  /\ ver \in HookVersions => "save" \in commandsRegistered
  /\ \E m \in ExplicitModes(ver), n \in 1..MaxEvents :
       /\ mode' = m
       /\ save' = [status |-> "running", kind |-> "explicit", req |-> m,
                   eventsLeft |-> n, over |-> "none", afterEdit |-> FALSE]
  /\ mem' = IF ver = "p002" THEN disableFormatOnSaveOnMemory("start") ELSE mem
  /\ pc' = "saving"
  /\ dec' = NoDec /\ run' = NoRun /\ trace' = <<>>
  /\ late' = NoLate
  /\ UNCHANGED <<ver, cfg, pref, userFiletypes, cocReady, activation, commandsRegistered, hooked,
                 host, content, plan>>

\* The host fires BufWritePre for one buffer and the subscribed handler runs:
\* onBufWritePre (part_002, part_004) or on_buf_write (Lua), the latter
\* through CocAction('runCommand', ...) into format or formatOnDemand.
PreSaveEvent ==
  /\ pc = "saving"
  /\ save.eventsLeft > 0
  /\ ver \in LuaVersions => save.over # "running"
  /\ save' = [save EXCEPT !.eventsLeft = @ - 1]
  /\ \E d \in host.docs :
       IF ver \in HookVersions
         THEN IF ~hooked
                THEN UNCHANGED <<dec, mem, pc, run, trace, content, late>>
                ELSE LET real == IF ver = "p002" THEN getRealFormatOnSave(mem, pref)
                                 ELSE getFormatOnSave(mem, pref)
                         seen == observedMode(mode)
                         go == shouldFormat(ver, seen, real)
                     IN /\ mem' = IF ver = "p002" /\ seen = "undefined"
                                    THEN memAfterGetReal(mem, pref) ELSE mem
                        /\ dec' = [handled |-> TRUE, seen |-> seen,
                                   served |-> TRUE, ran |-> go]
                        /\ IF go THEN StartFormat("hook", d)
                                 ELSE Stays
         ELSE LET seen == observedMode(mode)
                  c == format_command(seen)
                  up == cocReady /\ c \in commandsRegistered
                  go == /\ c # "nil"
                        /\ up
                        /\ (c = "formatOnDemand" => formatOnDemand(mem, pref))
              IN /\ mem' = mem
                 /\ dec' = [handled |-> TRUE, seen |-> seen,
                            served |-> up, ran |-> go]
                 /\ IF go THEN StartFormat("lua", d)
                          ELSE Stays
  /\ UNCHANGED <<ver, cfg, pref, userFiletypes, cocReady, activation, commandsRegistered,
                 hooked, mode, host, plan>>

\* The host save command returns to save / M.save, which resets the flag.
SaveReturn ==
  /\ pc = "saving"
  /\ save.eventsLeft = 0
  /\ ver \in LuaVersions => save.over # "running"
  /\ save' = [save EXCEPT !.status = "returned"]
  /\ mode' = IF save.kind = "explicit" THEN ResetMode(ver) ELSE mode
  /\ mem' = IF save.kind = "explicit" /\ ver = "p002"
              THEN disableFormatOnSaveOnMemory("end") ELSE mem
  /\ pc' = "idle"
  /\ run' = NoRun /\ trace' = <<>>
  /\ late' = NoLate
  /\ UNCHANGED <<ver, cfg, pref, userFiletypes, cocReady, activation,
                 commandsRegistered, hooked, dec, host, content, plan>>

\* The host save command fails (read-only file, no file name, ...): the
\* statements after it in save / M.save are not executed.
SaveRaise ==
  /\ pc = "saving"
  /\ save' = [save EXCEPT !.status = "raised", !.eventsLeft = 0]
  /\ pc' = "idle"
  /\ dec' = NoDec /\ run' = NoRun /\ trace' = <<>>
  /\ late' = NoLate /\ content' = content
  /\ UNCHANGED <<ver, cfg, pref, userFiletypes, mem, cocReady, activation, commandsRegistered,
                 hooked, mode, host, plan>>

\* A second save command starts while the host save of an explicit save
\* has not returned: save / M.save sets the flag for the new save.
OverlapStart ==
  /\ pc = "saving"
  /\ host.reentrant
  /\ save.status = "running" /\ save.kind = "explicit" /\ save.over = "none"
  /\ \E m \in ExplicitModes(ver) : mode' = m
  /\ mem' = IF ver = "p002" THEN disableFormatOnSaveOnMemory("start") ELSE mem
  /\ save' = [save EXCEPT !.over = "running"]
  /\ UNCHANGED <<ver, cfg, pref, userFiletypes, cocReady, activation, commandsRegistered,
                 hooked, dec, pc, run, trace, host, content, late, plan>>

\* The host save of the second save command returns (it had no buffer to
\* write) and its save / M.save resets the flag.
OverlapReturn ==
  /\ pc = "saving"
  /\ save.status = "running" /\ save.over = "running"
  /\ mode' = ResetMode(ver)
  /\ mem' = IF ver = "p002" THEN disableFormatOnSaveOnMemory("end") ELSE mem
  /\ save' = [save EXCEPT !.over = "returned"]
  /\ UNCHANGED <<ver, cfg, pref, userFiletypes, cocReady, activation, commandsRegistered,
                 hooked, dec, pc, run, trace, host, content, late, plan>>

\* Between two saves the user edits the settings: what getConfiguration
\* returns from now on is the planned configuration.
EditConfig ==
  /\ pc = "idle"
  /\ save.status = "returned"
  /\ plan # cfg
  /\ cfg' = plan
  /\ plan' = cfg
  /\ save' = [save EXCEPT !.status = "edited"]
  /\ UNCHANGED <<ver, pref, userFiletypes, mem, cocReady, activation, commandsRegistered,
                 hooked, mode, dec, pc, run, trace, host, content, late>>

\* The host completes a command the pipeline has stopped waiting for.
HostCompletes ==
  /\ \E k \in late.pending :
       /\ late' = [pending |-> late.pending \ {k}, done |-> late.done \cup {k}]
       /\ content' = Apply(host[k], content)
  /\ UNCHANGED <<ver, cfg, pref, userFiletypes, mem, cocReady, activation, commandsRegistered,
                 hooked, mode, save, dec, pc, run, trace, host, plan>>

\* The user runs the registered command format-on-save.format directly.
FormatCommand ==
  /\ pc = "idle"
  /\ cocReady
  /\ "format" \in commandsRegistered
  /\ \E d \in host.docs : StartFormat("command", d)
  /\ dec' = NoDec /\ save' = NoSave
  /\ UNCHANGED <<ver, cfg, pref, userFiletypes, mem, cocReady, activation, commandsRegistered,
                 hooked, mode, host, plan>>

----------------------------------------------------------------------------

\* The extension and the editor before activate; the host's commands, the
\* text and the planned edit are chosen by Init or by a narrower start.
InitCore ==
  /\ ver \in Versions
  /\ cfg \in Configs(ver)
  /\ pref \in BOOLEAN
  /\ userFiletypes \in {"undefined", "set"}
  /\ mem = NoOverride
  /\ cocReady = (ver \in HookVersions)
  /\ activation = "no"
  /\ commandsRegistered = {}
  /\ hooked = FALSE
  /\ mode = InitialMode(ver)
  /\ save = NoSave
  /\ dec = NoDec
  /\ pc = "idle"
  /\ run = NoRun
  /\ trace = <<>>
  /\ late = NoLate

Init ==
  /\ InitCore
  /\ host \in Hosts
  /\ content \in Contents
  /\ plan \in Configs(ver)

Next ==
  \/ Activate
  \/ CocServiceInitialized
  \/ OrdinarySave
  \/ ExplicitSave
  \/ PreSaveEvent
  \/ SaveReturn
  \/ SaveRaise
  \/ OverlapStart
  \/ OverlapReturn
  \/ EditConfig
  \/ HostCompletes
  \/ FormatCommand
  \/ StepSort
  \/ StepGuard
  \/ StepOrganize
  \/ StepAction
  \/ StepFormat

Spec == Init /\ [][Next]_vars

\* The save commands and the pre-save decision, for every variant, host
\* preference and mode; no user-defined actions are configured.
InitSave ==
  /\ InitCore
  /\ userFiletypes = "undefined"
  /\ cfg.actions = <<>>
  /\ host \in {QuietHost(Docs, re) : re \in BOOLEAN}
  /\ content = NoContent
  /\ plan = [cfg EXCEPT !.sortCocSettingsJson = ~@]

SpecSave == InitSave /\ [][Next]_vars

\* The organize-imports step, the user-defined actions and the final
\* format step, for every variant and action mapping, on a document with
\* and without a format provider; the host's format-on-save preference is
\* on and the JSON sort is switched off. Overlapping saves and edits of the
\* settings are followed where no action is configured.
InitActions ==
  /\ InitCore
  /\ userFiletypes = "undefined"
  /\ pref = TRUE
  /\ cfg.sortCocSettingsJson = FALSE
  /\ cfg.names = PlainNames(Len(cfg.actions))
  /\ host \in {QuietHost(DocsAt({<<"/", "coc-settings", ".json">>}), re) :
                 re \in {b \in BOOLEAN : b => cfg.actions = <<>>}}
  /\ content = NoContent
  /\ plan = IF cfg.actions = <<>>
              THEN [cfg EXCEPT !.organizeImportWithFormat = ~@] ELSE cfg

SpecActions == InitActions /\ [][Next]_vars

\* The order of a run's dispatches: every step switched on, the JSON sort
\* included; mappings of coc and vim commands in turn, each entry under a
\* name that is not integer-like or under any integer-like name.
InitOrder ==
  /\ InitCore
  /\ userFiletypes = "undefined"
  /\ pref = TRUE
  /\ cfg.sortCocSettingsJson /\ cfg.organizeImportWithFormat
  /\ host \in {QuietHost(DocsAt({<<"/", "my-", "coc-settings", ".json">>}), re) :
                 re \in {b \in BOOLEAN : b => cfg.actions = <<>>}}
  /\ content = NoContent
  /\ plan = IF cfg.actions = <<>> THEN [cfg EXCEPT !.enabled = ~@] ELSE cfg
  /\ \A k \in 1..Len(cfg.actions) :
       /\ cfg.actions[k] = IF k % 2 = 1 THEN RawCoc ELSE RawVim
       /\ ~cfg.names[k].int => cfg.names[k].n = k

SpecOrder == InitOrder /\ [][Next]_vars

\* What runs do to the text: a document with a format provider whose text
\* the formatter leaves as it is; a formatter that does nothing, lays the
\* text out anew or brings it to its canonical form, and user-defined
\* commands that do nothing or leave a mark. Overlapping saves and edits of
\* the settings are followed where every command leaves the text alone.
InitContent ==
  /\ InitCore
  /\ userFiletypes = "undefined"
  /\ pref = TRUE
  /\ cfg.enabled
  /\ cfg.sortCocSettingsJson = FALSE /\ cfg.organizeImportWithFormat = FALSE
  /\ cfg.actions \in {<<>>, <<RawCoc>>}
  /\ cfg.names = PlainNames(Len(cfg.actions))
  /\ \E a \in {"nothing", "mark"}, f \in {"nothing", "relayout", "canonical"} :
       host = [sort |-> "nothing", organize |-> "nothing", action |-> a,
               format |-> f,
               docs |-> {[uri |-> <<"/", "my-", "coc-settings", ".json">>,
                          provider |-> TRUE]},
               reentrant |-> (a = "nothing" /\ f = "nothing")]
  /\ content = NoContent
  /\ plan = IF host.reentrant THEN [cfg EXCEPT !.organizeImportWithFormat = ~@]
                              ELSE cfg

SpecContent == InitContent /\ [][Next]_vars

\* Activation and the saves after it when the user's own configuration
\* sets coc.preferences.formatOnSaveFiletypes; no user-defined actions, the
\* JSON sort switched off.
InitFiletypes ==
  /\ InitCore
  /\ userFiletypes = "set"
  /\ cfg.actions = <<>>
  /\ cfg.sortCocSettingsJson = FALSE
  /\ host \in {QuietHost(DocsAt({<<"/", "coc-settings", ".json">>}), re) :
                 re \in BOOLEAN}
  /\ content = NoContent
  /\ plan = [cfg EXCEPT !.organizeImportWithFormat = ~@]

SpecFiletypes == InitFiletypes /\ [][Next]_vars

\* Runs to their end: part_003 with its timeouts and part_004 without, on
\* one document with a format provider, organize imports on or off, no
\* user-defined actions. A step of format whose awaited promise has settled
\* is continued by the event loop, so every step of the pipeline is taken
\* if it stays possible.
InitFair ==
  /\ InitCore
  /\ ver \in {"p003", "p004"}
  /\ userFiletypes = "undefined"
  /\ pref = TRUE
  /\ cfg.enabled
  /\ cfg.actions = <<>>
  /\ cfg.sortCocSettingsJson = FALSE
  /\ host = QuietHost({[uri |-> <<"/", "coc-settings", ".json">>,
                        provider |-> TRUE]}, TRUE)
  /\ content = NoContent
  /\ plan = [cfg EXCEPT !.organizeImportWithFormat = ~@]

SpecFair ==
  /\ InitFair /\ [][Next]_vars
  /\ WF_vars(StepSort) /\ WF_vars(StepGuard) /\ WF_vars(StepOrganize)
  /\ WF_vars(StepAction) /\ WF_vars(StepFormat)

----------------------------------------------------------------------------
(* Properties *)

Has(tr, name) == \E n \in 1..Len(tr) : tr[n].ev = name

DispatchEvents == {"sort", "organize", "coc", "vim", "format"}

Started == run.state # "none"

Finished == run.state = "done"

\* The value that stands for the default mode: 'auto', or undefined where
\* the flag is the boolean formatOnSave of part_002.
AutoValue == IF ver = "p002" THEN "undefined" ELSE "auto"

\* A save without format that no other save command has overlapped.
NeverSave == save.kind = "explicit" /\ save.req = "never" /\ save.over = "none"

\* The host save has returned to the save command.
Returned == save.status \in {"returned", "edited"}

\* The default rule: the pipeline runs when the host preference is on (and,
\* behind the Lua hook, the coc service is up and formatOnDemand registered).
AutoRule == pref /\ dec.served

SkippedDuringNeverSave ==
  (save.status = "running" /\ NeverSave) =>
      /\ mode = "never"
      /\ pc = "saving" /\ ~Started /\ trace = <<>>
      /\ dec.handled => ~dec.ran

AutoAfterNeverSave ==
  (Returned /\ NeverSave) => mode = AutoValue

DefaultRuleWhenAuto ==
  (save.status = "running" /\ save.kind = "ordinary" /\ dec.handled
     /\ dec.seen = AutoValue) => (dec.ran <=> AutoRule)

\* C1: an explicit save without format, not overlapped by another save
\* command, holds the mode at never for exactly
\* that save: while its host save runs no pre-save handler starts the
\* pipeline; once the host save command has returned the mode is the default
\* again; and the ordinary save that follows starts in the default mode and
\* is decided by the default rule.
C1_SaveWithoutFormat ==
  [][ /\ SkippedDuringNeverSave'
      /\ AutoAfterNeverSave'
      /\ DefaultRuleWhenAuto'
      /\ (Returned /\ NeverSave /\ save'.kind = "ordinary")
           => mode' = AutoValue ]_vars

C1_Witness ==
  /\ save.status = "returned" /\ NeverSave
  /\ dec.handled /\ ~dec.ran
  /\ pref /\ dec.served
  /\ mode = AutoValue

\* C2: every pre-save event handled while the mode is absent or auto runs
\* the pipeline if and only if the host's format-on-save preference is true.
\* Stated for the events the extension is able to serve; the claim as worded
\* covers the others as well.
C2_AbsentOrAutoFollowsPreference ==
  (dec.handled /\ dec.served /\ dec.seen \in {"undefined", "auto"})
    => (dec.ran <=> pref)

\* C3 as stated: every pre-save event handled while the mode is always runs
\* the pipeline.
C3_AlwaysRunsPipeline ==
  (dec.handled /\ dec.seen = "always") => dec.ran

\* C3 as amended: a pre-save event handled while the mode is always runs the
\* pipeline whatever the host preference, provided that behind the Lua hook
\* the coc service is initialised and the format command is registered.
C3_AlwaysRunsWhenServed ==
  (save.status = "running" /\ dec.handled /\ dec.seen = "always"
     /\ dec.served) => (dec.ran /\ Started)

C3_Witness ==
  /\ save.status = "running" /\ dec.handled /\ dec.seen = "always"
  /\ ~pref /\ dec.ran /\ Finished /\ Has(trace, "format")

\* C6: when activation read enabled=false it registered no command,
\* subscribed no pre-save hook and left the in-memory configuration alone,
\* and no pipeline step is ever dispatched in the session.
C6_DisabledDoesNothing ==
  (activation \notin {"no", "failed"} /\ ~cfg.enabled) =>
      /\ commandsRegistered = {} /\ ~hooked
      /\ mem = NoOverride
      /\ ~Started /\ trace = <<>> /\ pc \in {"idle", "saving"}
      /\ ~dec.ran

C6_Witness ==
  /\ activation = "disabled" /\ ~cfg.enabled
  /\ save.status = "returned" /\ dec.handled /\ dec.seen = "auto"
  /\ pref /\ cocReady /\ ver \in LuaVersions

\* Positions of the trace that hold a dispatch of a host command.
IsDispatch(e) == e.ev \in DispatchEvents

NothingDispatchedAfter(n) ==
  \A m \in (n + 1)..Len(trace) : ~IsDispatch(trace[m])

\* C4 as stated: in a run on a document without a format provider neither
\* organize imports nor a user-defined action nor format document is
\* dispatched.
C4_NoProviderNothingDispatched ==
  (Started /\ ~run.doc.provider) =>
      \A n \in 1..Len(trace) : trace[n].ev \notin {"organize", "coc", "vim", "format"}

\* C4 as amended: in a run on a document without a format provider the
\* format-document command is never dispatched and nothing is dispatched
\* after the provider check has failed; where the check heads format
\* (part_002, part_004, index.ts) neither organize imports nor a user-defined
\* action is dispatched either, while part_003 checks in its last step, after
\* organize imports and the user-defined actions.
C4_NoProviderStopsAtGuard ==
  (Started /\ ~run.doc.provider) =>
      /\ ~Has(trace, "format")
      /\ ~Has(trace, "guardYes")
      /\ \A n \in 1..Len(trace) :
           trace[n].ev = "guardNo" => NothingDispatchedAfter(n)
      /\ ver # "p003" =>
           \A n \in 1..Len(trace) : trace[n].ev \notin {"organize", "coc", "vim"}

C4_Witness ==
  /\ ver = "index" /\ Finished /\ ~run.doc.provider
  /\ run.organize /\ Len(run.actions) > 0 /\ run.actions[1] = "coc"
  /\ Has(trace, "guardNo")

\* The document's URI ends with coc-settings.json.
UriEndsWithTarget(u) ==
  \E n \in 0..Len(u) : u = SubSeq(u, 1, n) \o <<"coc-settings", ".json">>

\* The steps of the run that come after the first sort step.
PastSort == Finished \/ (Started /\ pc # "sort")

\* C5: in every run the JSON sort-keys command is dispatched if and only if
\* the resolved sortCocSettingsJson is true and the URI ends with
\* coc-settings.json, and then a dispatch of it precedes the provider check.
C5_SortIffConfigFile ==
  PastSort =>
      /\ Has(trace, "sort") <=>
           (run.resolved /\ cfg.sortCocSettingsJson /\ UriEndsWithTarget(run.doc.uri))
      /\ \A g \in 1..Len(trace) :
           (trace[g].ev \in {"guardYes", "guardNo"} /\ Has(trace, "sort"))
             => \E n \in 1..(g - 1) : trace[n].ev = "sort"

C5_Witness ==
  /\ Finished /\ Has(trace, "sort") /\ Has(trace, "guardNo")
  /\ run.doc.uri = <<"/", "my-", "coc-settings", ".json">>

\* Indices of the resolved action mapping.
Entries == 1..Len(run.actions)

Enabled(k) == run.actions[k] \in {"coc", "vim"}

DispatchedEntry(k) ==
  \E n \in 1..Len(trace) : trace[n].i = k /\ trace[n].ev \in {"coc", "vim"}

TimedOutEntry(k) ==
  \E n \in 1..Len(trace) : trace[n].i = k /\ trace[n].ev = "timeout"

FormatStepReached ==
  Has(trace, "format") \/ Has(trace, "guardNo")

\* C7 as stated: after the timeout of a user-defined action the run goes on
\* to the remaining actions and to the format-document step.
C7_TimeoutFailsOnlyTheAction ==
  \A k \in Entries :
    (Finished /\ TimedOutEntry(k)) =>
        /\ \A j \in Entries : (j > k /\ Enabled(j)) => DispatchedEntry(j)
        /\ FormatStepReached

\* C7 as amended: when the timer of a user-defined action fires the run does
\* not hang: the failure is reported, the remaining actions and the
\* format-document step are skipped, and the run ends with its final re-sync.
C7_TimeoutEndsTheRun ==
  \A n \in 1..Len(trace) :
    (trace[n].ev = "timeout" /\ trace[n].i > 0) =>
        /\ Finished /\ pc # "hung"
        /\ DispatchedEntry(trace[n].i)
        /\ Len(trace) = n + 2
        /\ trace[n + 1].ev = "error"
        /\ trace[n + 2].ev = "sync"
        /\ \A j \in Entries : j > trace[n].i => ~DispatchedEntry(j)
        /\ ~FormatStepReached

C7_Witness ==
  /\ Finished /\ TimedOutEntry(1)
  /\ Len(run.actions) = 2 /\ Enabled(2) /\ run.doc.provider

\* C8: the action loop dispatches exactly the enabled entries: a disabled
\* entry is only logged (no dispatch, no settling delay), every enabled entry
\* the loop comes to is dispatched, the loop goes on after a disabled entry,
\* and a loop that runs to its end has dispatched all enabled entries and no
\* other.
C8_OnlyEnabledDispatched ==
  (Started /\ run.resolved) =>
      /\ \A k \in Entries :
           /\ ~Enabled(k) =>
                \A n \in 1..Len(trace) : trace[n].i = k => trace[n].ev = "skip"
           /\ Enabled(k) =>
                \A n \in 1..Len(trace) : trace[n].i = k => trace[n].ev # "skip"
           /\ k < run.i =>
                IF Enabled(k) THEN DispatchedEntry(k)
                ELSE \E n \in 1..Len(trace) : trace[n] = [ev |-> "skip", i |-> k]
           /\ (\E n \in 1..Len(trace) : trace[n] = [ev |-> "skip", i |-> k])
                => run.i > k
      /\ run.i > Len(run.actions) =>
           {k \in Entries : DispatchedEntry(k)} = {k \in Entries : Enabled(k)}

C8_Witness ==
  /\ Finished /\ run.actions = <<"none", "coc">>
  /\ trace[2] = [ev |-> "skip", i |-> 1]
  /\ trace[3] = [ev |-> "coc", i |-> 2]
  /\ Has(trace, "format")

\* C9: an action descriptor that gives a command and omits commandType is
\* resolved to the coc kind, never to the disabled variant.
C9_OmittedTagResolvesToCoc ==
  (Started /\ run.resolved) =>
      \A k \in 1..Len(run.actions) :
        LET raw == cfg.actions[run.order[k]]
        IN (raw.command /\ raw.commandType = "absent") => run.actions[k] = "coc"

\* C10: every pipeline invocation ends with a buffer re-sync as its last
\* effect on the document.
C10_EndsWithSync ==
  (Finished /\ run.doc # NoDoc) =>
      (Len(trace) > 0 /\ trace[Len(trace)].ev = "sync")

\* What can go wrong inside format, and how a failure is made known.
FailureEvents == {"rejected", "timeout", "queryRejected", "invalid", "threw"}

SurfacingEvents == {"error", "sortWarned", "notified"}

\* The run was started by a pre-save handler.
ForSave == run.via \in {"hook", "lua"}

Rank(e) ==
  CASE e.ev = "sort" -> 1
    [] e.ev = "organize" -> 2
    [] e.ev \in {"coc", "vim"} -> 3
    [] e.ev = "format" -> 4
    [] OTHER -> 0

SettleEvents == {"resolved", "rejected", "timeout"}

SettledAfter(n, upTo) ==
  \E j \in (n + 1)..upTo :
    trace[j].ev \in SettleEvents /\ trace[j].i = trace[n].i

\* C12: the commands of a run are dispatched in the order JSON sort,
\* organize imports, user-defined actions, format document; between two
\* dispatches the earlier command has resolved, been rejected or timed
\* out; a dispatched command that has not settled is the last one
\* dispatched and the pipeline is waiting for it.
C12_FixedOrderEachAwaited ==
  /\ \A n, m \in 1..Len(trace) :
       (n < m /\ IsDispatch(trace[n]) /\ IsDispatch(trace[m])) =>
           /\ Rank(trace[n]) <= Rank(trace[m])
           /\ SettledAfter(n, m - 1)
  /\ \A n \in 1..Len(trace) :
       (IsDispatch(trace[n]) /\ ~SettledAfter(n, Len(trace))) =>
           (pc = "hung" /\ NothingDispatchedAfter(n))

C12_Witness ==
  /\ Finished /\ ver = "p003"
  /\ Has(trace, "sort")
  /\ Has(trace, "organize")
  /\ \E n \in 1..Len(trace) : trace[n] = [ev |-> "coc", i |-> 1]
  /\ \E n \in 1..Len(trace) : trace[n] = [ev |-> "vim", i |-> 2]
  /\ Has(trace, "format")

\* The dispatches of user-defined actions in the trace.
IsActionDispatch(e) == e.ev \in {"coc", "vim"}

\* C13: the user-defined actions of a run are dispatched in the order in
\* which the mapping declares them, whatever the names are.
C13_DeclaredOrder ==
  (Started /\ run.resolved) =>
      \A n, m \in 1..Len(trace) :
        (n < m /\ IsActionDispatch(trace[n]) /\ IsActionDispatch(trace[m])) =>
            run.order[trace[n].i] < run.order[trace[m].i]

\* The run is over and none of its commands was rejected or timed out.
CleanlyFinished ==
  /\ Finished
  /\ \A n \in 1..Len(trace) :
       trace[n].ev \notin {"rejected", "timeout", "queryRejected", "invalid", "threw"}

\* The commands other than the formatter that the run has dispatched.
DispatchedBesidesFormat ==
  { CommandOf(trace[n]) : n \in { m \in 1..Len(trace) : IsDispatch(trace[m]) } }
    \ {"format"}

C15_SyncBeforeFirstAfterLast ==
  run.via \in {"hook", "lua"} =>
    /\ \A m \in 1..Len(trace) :
         IsDispatch(trace[m]) => \E n \in 1..(m - 1) : trace[n] = Sync
    /\ Finished =>
         \A m \in 1..Len(trace) :
           IsDispatch(trace[m]) => \E n \in (m + 1)..Len(trace) : trace[n] = Sync

\* The run's step decisions are those of the settings as they are now.
DecidedBy(c) ==
  LET valid == ConfigValid(ver, c)
  IN /\ run.resolved = valid
     /\ run.sort = (valid /\ c.sortCocSettingsJson)
     /\ run.organize = (valid /\ c.organizeImportWithFormat)
     /\ run.actions = IF valid THEN ResolvedActions(ver, c) ELSE <<>>
     /\ Has(trace, "sort") => c.sortCocSettingsJson
     /\ Has(trace, "query") => c.organizeImportWithFormat
     /\ (PastSort /\ valid /\ c.sortCocSettingsJson /\ isCocConfigFile(run.doc))
          => Has(trace, "sort")

\* C16: every run decides its steps by the settings as they are when it
\* starts, also the run of the first save after the settings were edited:
\* the sort flag, the organize-imports flag and the action mapping are the
\* edited ones.
C16_FreshConfigEveryRun == Started => DecidedBy(cfg)

\* After the JSON sort was switched on between two saves, the second save
\* dispatches the sort.
C16_Witness ==
  /\ save.afterEdit /\ Started
  /\ cfg.sortCocSettingsJson /\ ~plan.sortCocSettingsJson
  /\ Has(trace, "sort")

\* activate has run and the unscoped settings were valid.
Activated == activation \notin {"no", "failed"}

C18_TimedOutCommandStillInFlight ==
  \A n \in 2..Len(trace) :
    trace[n].ev = "timeout" =>
      CommandOf(trace[n - 1]) \in late.pending \cup late.done

\* The format-document command timed out, the run re-synced and returned,
\* and the host has completed the command after that.
C18_Witness ==
  /\ ver = "p003" /\ Finished
  /\ Has(trace, "timeout")
  /\ trace[Len(trace)] = Sync
  /\ "format" \in late.done

\* C19: a pre-save handler of an explicit save that no other save command
\* has overlapped observes the mode that save was started with.
C19_OwnModeWithoutOverlap ==
  (save.kind = "explicit" /\ dec.handled /\ save.over = "none")
    => dec.seen = save.req

\* With a second save command started before the host save of the first
\* has returned, a handler of the first observes another mode.
C19_Witness ==
  /\ save.kind = "explicit" /\ save.over # "none"
  /\ dec.handled
  /\ dec.seen # save.req

\* C20: every run of part_003, the variant with withTimeout, comes to its
\* end, whatever the host leaves unanswered.
C20_EveryRunFinishes ==
  (ver = "p003" /\ run.state = "running") ~> (run.state = "done")

\* C21: a sort step whose formatJson command is rejected or times out
\* reports it with a warning and hands over to the step that follows a
\* successful sort, with the run and the text as they were.
C21_SortFailureContained ==
  [][ ( /\ pc \in {"sort", "sort2"}
        /\ Len(trace') >= Len(trace) + 2
        /\ trace'[Len(trace) + 2].ev \in {"rejected", "timeout"} )
      => /\ trace'[Len(trace')].ev = "sortWarned"
         /\ pc' = AfterSort(ver, pc)
         /\ run' = run /\ content' = content ]_vars

\* The sort timed out, and organize imports, both actions and the format
\* command were dispatched after it in the same run.
C21_Witness ==
  /\ ver = "p003" /\ Finished
  /\ Len(trace) >= 4
  /\ trace[2].ev = "sort" /\ trace[3].ev = "timeout" /\ trace[4].ev = "sortWarned"
  /\ Has(trace, "organize") /\ Has(trace, "coc") /\ Has(trace, "format")

\* The events the organize-imports step has added to the trace.
OrganizeEvents ==
  { n \in 1..Len(trace) :
      trace[n].ev \in {"query", "someFound", "noneFound", "organize",
                       "notSupported"} }

\* C22: the capability query is made only with organize imports switched
\* on; the organize-imports command is dispatched right after an answer
\* with at least one code action and only then; an answer with none is
\* followed by the log line and by nothing else of the step, no error is
\* raised, and the run goes on to the user-defined actions and the format
\* step.
C22_OrganizeIffProvider ==
  \A n \in OrganizeEvents :
    /\ run.organize
    /\ trace[n].ev = "organize" => trace[n - 1].ev = "someFound"
    /\ trace[n].ev = "someFound" =>
         trace[n - 1].ev = "query" /\ trace[n + 1].ev = "organize"
    /\ trace[n].ev = "noneFound" =>
         trace[n - 1].ev = "query" /\ trace[n + 1].ev = "notSupported"
    /\ trace[n].ev = "notSupported" =>
         /\ trace[n - 1].ev = "noneFound"
         /\ n < Len(trace) =>
              trace[n + 1].ev \notin {"organize", "error", "threw", "rejected"}
         /\ n = Len(trace) => pc \in {"actions", "lsp"}

\* The query found no organize-imports action, and the run went on to a
\* user-defined action and to format-document.
C22_Witness ==
  /\ Finished
  /\ Has(trace, "notSupported") /\ ~Has(trace, "organize")
  /\ Has(trace, "coc") /\ Has(trace, "format")
  /\ ~Has(trace, "error")

\* C23: in the trace of a run a settling delay stands right after every
\* resolved coc command of the action mapping, hence before the dispatch
\* that follows it, and nowhere else: none after a resolved vim command and
\* none after a disabled entry.
C23_DelayAfterCocOnly ==
  \A n \in 2..Len(trace) :
    /\ (trace[n].ev = "resolved" /\ trace[n - 1].ev = "coc") =>
         (n < Len(trace) /\ trace[n + 1] = EA("delay", trace[n].i))
    /\ trace[n].ev = "delay" =>
         (n > 2 /\ trace[n - 1].ev = "resolved" /\ trace[n - 2].ev = "coc")

\* A run of index.ts with a coc command and its settling delay, and with a
\* vim command that format-document follows at once.
C23_Witness ==
  /\ Finished /\ ver = "index"
  /\ Has(trace, "delay") /\ Has(trace, "format")
  /\ \E n \in 2..(Len(trace) - 1) :
       /\ trace[n].ev = "resolved" /\ trace[n - 1].ev = "vim"
       /\ trace[n + 1].ev = "format"

\* C24: once an explicit save command is over, whether its host save has
\* returned or has raised, and no other save command is running, the mode
\* is at its default value.
C24_DefaultModeOutsideExplicitSaves ==
  ( /\ save.kind = "explicit"
    /\ save.status \in {"returned", "raised", "edited"}
    /\ save.over # "running" )
    => mode = AutoValue

\* C25: the trace of a run holds at most one dispatch of the JSON sort.
C25_SortAtMostOnce ==
  Cardinality({ n \in 1..Len(trace) : trace[n].ev = "sort" }) <= 1

\* The in-memory override that switches the host's own format-on-save off.
Suppressed == [formatOnSave |-> "false", formatOnSaveFiletypes |-> "empty"]

\* An explicit save of part_002 that no other save command has overlapped.
OverridingSave == ver = "p002" /\ save.kind = "explicit" /\ save.over = "none"

C27_GetRealLeavesOverride ==
  [][ ( /\ ver = "p002" /\ pc = "saving"
        /\ save'.status = "running"
        /\ save'.eventsLeft < save.eventsLeft
        /\ dec'.handled /\ dec'.seen = "undefined" )
      => mem' = mem ]_vars

====
